---- MODULE Spec2Model ----
(***************************************************************************)
(* Model of the summarize-bot incremental summarization engine             *)
(* (src/main.py): the Firestore watermark store, the per-channel message   *)
(* history of the chat platform, and get_guild_summary runs that may       *)
(* overlap at their suspension points (the awaits of channel.history).     *)
(*                                                                         *)
(* Instants are integers counted in hours.  A message burst is a group of  *)
(* n messages posted at one instant, so that the 500-message cap of        *)
(* channel.history is reached with few model steps.                        *)
(*                                                                         *)
(* Spec is the engine.  SpecSummarize and SpecKeywords study               *)
(* summarize_messages and extract_keywords on their own, on messages and   *)
(* texts written out character by character; SpecHandler is one request    *)
(* going through handle_discord_interaction and, from there, through a     *)
(* run of the engine.                                                      *)
(***************************************************************************)
EXTENDS Integers, Sequences, FiniteSets, TLC

\* ------------------------------------------------------------------ bounds
MaxPosts == 2    \* bursts posted over a behaviour
MaxRuns == 2     \* invocations of get_guild_summary over a behaviour
MaxBatch == 6    \* messages in a batch handed to summarize_messages
MaxWords == 4    \* words in a text handed to extract_keywords

\* --------------------------------------------------------- program constants
HISTORY_LIMIT == 500       \* channel.history(limit=500, ...)
DEFAULT_LOOKBACK == 24     \* timedelta(hours=24)
REACTION_WEIGHT == 10      \* len(msg.reactions) * 10
MAX_HIGHLIGHTS == 5        \* sorted(...)[:5]
CONTENT_LIMIT == 200       \* msg.content[:200]
DEFAULT_MAX_KEYWORDS == 5  \* max_keywords: int = 5

\* ------------------------------------------------------------ the platform
\* guild_id strings a command can carry: two guilds the bot is in, one
\* numeric id it does not know, one id int() cannot parse.
GuildIdInputs == {"1", "2", "404", "abc"}

\* int(guild_id); ids outside the domain make int() raise ValueError.
IntOf == [s \in {"1", "2", "404"} |-> CASE s = "1" -> 1 [] s = "2" -> 2 [] OTHER -> 404]

\* guild.channels of the guilds in the bot's cache, in platform order.
GuildChannels ==
    [g \in {1, 2} |->
        IF g = 1
        THEN << [id |-> 11, text |-> TRUE], [id |-> 12, text |-> FALSE],
                [id |-> 13, text |-> TRUE] >>
        ELSE << [id |-> 21, text |-> FALSE] >>]

ChannelIds == {11, 12, 13, 21}

\* the channels members write in (12 and 21 are voice channels)
TextChannelIds == {11, 13}

\* sizes of the bursts a channel can receive
BurstSizes == {1, 300}

RunIds == 1..MaxRuns

VARIABLES
    now,        \* datetime.utcnow(), in hours
    store,      \* Firestore collection 'servers': guild_id -> document
    chan,       \* channel id -> its messages, oldest first
    posts,      \* bursts posted so far
    run,        \* run id -> the frame of one get_guild_summary invocation
    call        \* the call of a function or of the webhook handler under study

vars == << now, store, chan, posts, run, call >>

\* ---------------------------------------------------------------- documents
NoDoc == [exists |-> FALSE, has_last |-> FALSE, last_summary |-> 0]
EmptyDoc == [exists |-> TRUE, has_last |-> FALSE, last_summary |-> 0]
Doc(t) == [exists |-> TRUE, has_last |-> TRUE, last_summary |-> t]

\* --------------------------------------------------------- WatermarkStore
\* mutant: a document without last_summary is not told from one with it
get_last_summary_timestamp_unchecked(guild_id, read_ok) ==
    IF read_ok /\ store[guild_id].exists
    THEN store[guild_id].last_summary
    ELSE now - DEFAULT_LOOKBACK

\* mutant: the default looks 24 hours ahead instead of back
get_last_summary_timestamp_ahead(guild_id, read_ok) ==
    IF read_ok /\ store[guild_id].exists /\ store[guild_id].has_last
    THEN store[guild_id].last_summary
    ELSE now + DEFAULT_LOOKBACK

\* get_last_summary_timestamp(guild_id); read_ok = FALSE is doc_ref.get()
\* raising, which the except clause logs before falling to the default.
get_last_summary_timestamp(guild_id, read_ok) ==
    IF read_ok /\ store[guild_id].exists /\ store[guild_id].has_last
    THEN store[guild_id].last_summary
    ELSE now - DEFAULT_LOOKBACK

\* mutant: a timestamp older than the stored one is not written
update_last_summary_timestamp_monotone(guild_id, timestamp, write_ok) ==
    IF write_ok /\ ~(store[guild_id].has_last
                      /\ store[guild_id].last_summary > timestamp)
    THEN [store EXCEPT ![guild_id] = Doc(timestamp)] ELSE store

\* mutant: the instant of the write is stored, not the one handed over
update_last_summary_timestamp_stores_now(guild_id, timestamp, write_ok) ==
    IF write_ok THEN [store EXCEPT ![guild_id] = Doc(now)] ELSE store

\* mutant: the timestamp is written to the document of every guild
update_last_summary_timestamp_everywhere(guild_id, timestamp, write_ok) ==
    IF write_ok THEN [g \in DOMAIN store |-> Doc(timestamp)] ELSE store

\* update_last_summary_timestamp(guild_id, timestamp): the store after the
\* call; write_ok = FALSE is doc_ref.set() raising, logged and swallowed.
update_last_summary_timestamp(guild_id, timestamp, write_ok) ==
    IF write_ok THEN [store EXCEPT ![guild_id] = Doc(timestamp)] ELSE store

\* ------------------------------------------------------------ the read API
RECURSIVE Take(_, _)
\* the first `limit` messages of a burst sequence
Take(bursts, limit) ==
    IF bursts = << >> \/ limit = 0 THEN << >>
    ELSE LET b == Head(bursts)
             k == IF b.n <= limit THEN b.n ELSE limit
         IN << [b EXCEPT !.n = k] >> \o Take(Tail(bursts), limit - k)

\* mutant: the instant itself counts as after it
history_inclusive(channel_id, limit, after) ==
    Take(SelectSeq(chan[channel_id], LAMBDA m : m.created_at >= after), limit)

\* channel.history(limit=limit, after=after): with `after` given the
\* library yields oldest first, only messages strictly after the instant.
history(channel_id, limit, after) ==
    Take(SelectSeq(chan[channel_id], LAMBDA m : m.created_at > after), limit)

RECURSIVE len(_)
\* len(messages)
len(bursts) == IF bursts = << >> THEN 0 ELSE Head(bursts).n + len(Tail(bursts))

\* summarize_messages(messages), the part the engine folds
summarize_messages(messages) == [total_messages |-> len(messages)]

\* text_channels = [channel for channel in guild.channels if isinstance(...)]
text_channels(guild_id) ==
    SelectSeq(GuildChannels[IntOf[guild_id]], LAMBDA ch : ch.text)

\* ----------------------------------------------------------- SummaryEngine
\* bot.get_guild(int(guild_id)) finds a guild
guild_found(guild_id) == IntOf[guild_id] \in DOMAIN GuildChannels

\* int(guild_id) returns
numeric(guild_id) == guild_id \in DOMAIN IntOf

NoResult == << >>

\* no function call is under study
NoCall == [fn |-> "none"]

IdleRun ==
    [pc |-> "idle", guild_id |-> "", last_timestamp |-> 0, current_time |-> 0,
     idx |-> 0, channel_summaries |-> << >>, total_messages |-> 0,
     total_channels_with_activity |-> 0,
     fetched |-> << >>,      \* history: did each channel's fetch succeed
     store_ops |-> << >>,    \* history: the store calls this run made
     result |-> NoResult]

\* mutant: an empty batch is summarized and listed like any other
process_channel_keeps_empty(f, outcome) ==
    LET channel == text_channels(f.guild_id)[f.idx + 1]
        messages == history(channel.id, HISTORY_LIMIT, f.last_timestamp)
        summary == summarize_messages(messages)
        g == [f EXCEPT !.idx = @ + 1, !.fetched = Append(@, outcome = "ok")]
    IN IF outcome = "ok"
       THEN [g EXCEPT
               !.channel_summaries =
                   Append(@, [channel_id |-> channel.id, summary |-> summary,
                              messages |-> messages]),
               !.total_messages = @ + summary.total_messages,
               !.total_channels_with_activity = @ + 1]
       ELSE g

\* mutant: a batch of one message is taken for an empty one
process_channel_skips_single(f, outcome) ==
    LET channel == text_channels(f.guild_id)[f.idx + 1]
        messages == history(channel.id, HISTORY_LIMIT, f.last_timestamp)
        summary == summarize_messages(messages)
        g == [f EXCEPT !.idx = @ + 1, !.fetched = Append(@, outcome = "ok")]
    IN IF outcome = "ok" /\ len(messages) > 1
       THEN [g EXCEPT
               !.channel_summaries =
                   Append(@, [channel_id |-> channel.id, summary |-> summary,
                              messages |-> messages]),
               !.total_messages = @ + summary.total_messages,
               !.total_channels_with_activity = @ + 1]
       ELSE g

\* mutant: the newest channel digest is put at the head of the list
process_channel_prepends(f, outcome) ==
    LET channel == text_channels(f.guild_id)[f.idx + 1]
        messages == history(channel.id, HISTORY_LIMIT, f.last_timestamp)
        summary == summarize_messages(messages)
        g == [f EXCEPT !.idx = @ + 1, !.fetched = Append(@, outcome = "ok")]
    IN IF outcome = "ok" /\ messages # << >>
       THEN [g EXCEPT
               !.channel_summaries =
                   << [channel_id |-> channel.id, summary |-> summary,
                       messages |-> messages] >> \o @,
               !.total_messages = @ + summary.total_messages,
               !.total_channels_with_activity = @ + 1]
       ELSE g

\* mutant: a channel whose history raised is asked once more
process_channel_retries(f, outcome) ==
    LET channel == text_channels(f.guild_id)[f.idx + 1]
        messages == history(channel.id, HISTORY_LIMIT, f.last_timestamp)
        summary == summarize_messages(messages)
        g == [f EXCEPT !.idx = @ + 1, !.fetched = Append(@, outcome = "ok")]
    IN IF outcome = "ok" /\ messages # << >>
       THEN [g EXCEPT
               !.channel_summaries =
                   Append(@, [channel_id |-> channel.id, summary |-> summary,
                              messages |-> messages]),
               !.total_messages = @ + summary.total_messages,
               !.total_channels_with_activity = @ + 1]
       ELSE IF outcome # "ok" /\ Len(f.fetched) = f.idx
            THEN [f EXCEPT !.fetched = Append(@, FALSE)]
            ELSE g

\* mutant: a channel whose history raised sends the loop back to the first
\* channel
process_channel_starts_over(f, outcome) ==
    LET channel == text_channels(f.guild_id)[f.idx + 1]
        messages == history(channel.id, HISTORY_LIMIT, f.last_timestamp)
        summary == summarize_messages(messages)
        g == [f EXCEPT !.idx = @ + 1, !.fetched = Append(@, outcome = "ok")]
    IN IF outcome = "ok" /\ messages # << >>
       THEN [g EXCEPT
               !.channel_summaries =
                   Append(@, [channel_id |-> channel.id, summary |-> summary,
                              messages |-> messages]),
               !.total_messages = @ + summary.total_messages,
               !.total_channels_with_activity = @ + 1]
       ELSE IF outcome # "ok"
            THEN [f EXCEPT !.idx = 0, !.fetched = << >>,
                           !.channel_summaries = << >>,
                           !.total_messages = 0,
                           !.total_channels_with_activity = 0]
            ELSE g

\* one iteration of `for channel in text_channels`, on the frame f
process_channel(f, outcome) ==
    LET channel == text_channels(f.guild_id)[f.idx + 1]
        messages == history(channel.id, HISTORY_LIMIT, f.last_timestamp)
        summary == summarize_messages(messages)
        g == [f EXCEPT !.idx = @ + 1, !.fetched = Append(@, outcome = "ok")]
    IN IF outcome = "ok" /\ messages # << >>
       THEN [g EXCEPT
               !.channel_summaries =
                   Append(@, [channel_id |-> channel.id, summary |-> summary,
                              messages |-> messages]),
               !.total_messages = @ + summary.total_messages,
               !.total_channels_with_activity = @ + 1]
       ELSE g

\* mutant: the instant is taken when the fan-out is over
commit_instant_after_fan_out(f) == now

\* the instant get_guild_summary hands to update_last_summary_timestamp
commit_instant(f) == f.current_time

\* mutant: a failed write reaches the outer except of get_guild_summary
emit_propagates(f, write_ok) ==
    [f EXCEPT
       !.pc = "done",
       !.store_ops = Append(@, [op |-> "set", key |-> f.guild_id,
                                value |-> commit_instant(f), ok |-> write_ok]),
       !.result = IF write_ok
                  THEN [guild_id |-> f.guild_id,
                        summary_period |-> [from |-> f.last_timestamp,
                                            to |-> f.current_time],
                        total_channels_with_activity |-> f.total_channels_with_activity,
                        total_messages |-> f.total_messages,
                        channel_summaries |-> f.channel_summaries]
                  ELSE [error |-> "Failed to generate summary"]]

\* mutant: the digest counts the channels read, not the channels listed
emit_counts_processed(f, write_ok) ==
    [f EXCEPT
       !.pc = "done",
       !.store_ops = Append(@, [op |-> "set", key |-> f.guild_id,
                                value |-> commit_instant(f), ok |-> write_ok]),
       !.result = [guild_id |-> f.guild_id,
                   summary_period |-> [from |-> f.last_timestamp,
                                       to |-> f.current_time],
                   total_channels_with_activity |-> f.idx,
                   total_messages |-> f.total_messages,
                   channel_summaries |-> f.channel_summaries]]

\* mutant: the period of the digest ends when the digest is built
emit_period_to_now(f, write_ok) ==
    [f EXCEPT
       !.pc = "done",
       !.store_ops = Append(@, [op |-> "set", key |-> f.guild_id,
                                value |-> commit_instant(f), ok |-> write_ok]),
       !.result = [guild_id |-> f.guild_id,
                   summary_period |-> [from |-> f.last_timestamp, to |-> now],
                   total_channels_with_activity |-> f.total_channels_with_activity,
                   total_messages |-> f.total_messages,
                   channel_summaries |-> f.channel_summaries]]

\* lines 190-207: update the timestamp and build the digest
emit(f, write_ok) ==
    [f EXCEPT
       !.pc = "done",
       !.store_ops = Append(@, [op |-> "set", key |-> f.guild_id,
                                value |-> commit_instant(f), ok |-> write_ok]),
       !.result = [guild_id |-> f.guild_id,
                   summary_period |-> [from |-> f.last_timestamp,
                                       to |-> f.current_time],
                   total_channels_with_activity |-> f.total_channels_with_activity,
                   total_messages |-> f.total_messages,
                   channel_summaries |-> f.channel_summaries]]

\* the frame is past its last channel
fan_out_done(f) == f.idx = Len(text_channels(f.guild_id))

\* lines 153-166 on a guild the bot knows: read the watermark, capture the
\* run's start instant, list the text channels
resolve(guild_id, read_ok) ==
    [IdleRun EXCEPT
       !.pc = "fetch",
       !.guild_id = guild_id,
       !.last_timestamp = get_last_summary_timestamp(guild_id, read_ok),
       !.current_time = now,
       !.store_ops = << [op |-> "get", key |-> guild_id,
                         value |-> get_last_summary_timestamp(guild_id, read_ok),
                         ok |-> read_ok, doc |-> store[guild_id]] >>]

\* the run goes on from frame f up to its next suspension point: the next
\* channel.history, or, past the last channel, the commit and the return
\* (nothing is awaited between the last fetch and the return).
proceed(r, f, write_ok) ==
    IF fan_out_done(f)
    THEN /\ run' = [run EXCEPT ![r] = emit(f, write_ok)]
         /\ store' = update_last_summary_timestamp(f.guild_id, commit_instant(f),
                                                   write_ok)
    ELSE /\ run' = [run EXCEPT ![r] = f]
         /\ store' = store

\* runs are started in the order of their ids
may_start(r) ==
    /\ run[r].pc = "idle"
    /\ IF r = 1 THEN TRUE ELSE run[r - 1].pc # "idle"

\* ------------------------------------------------------------------ actions
Init ==
    /\ now = 0
    \* the collection outlives the process: guild "1" is new or has a
    \* watermark from before, guild "2" has a document without last_summary
    /\ store \in {[g \in GuildIdInputs |->
                     IF g = "2" THEN EmptyDoc ELSE IF g = "1" THEN d ELSE NoDoc] :
                  d \in {NoDoc, Doc(0)}}
    /\ chan = [c \in ChannelIds |-> << >>]
    /\ posts = 0
    /\ run = [r \in RunIds |-> IdleRun]
    /\ call = NoCall

\* an hour passes and members post a burst of n messages in channel c
Post(c, n) ==
    /\ posts < MaxPosts
    /\ now' = now + 1
    /\ posts' = posts + 1
    /\ chan' = [chan EXCEPT ![c] = Append(@, [created_at |-> now + 1, n |-> n])]
    /\ UNCHANGED << store, run, call >>

\* mutant: the handler of the outer except still updates the timestamp
ResolveRaises_updates(r, guild_id) ==
    /\ may_start(r)
    /\ ~numeric(guild_id)
    /\ run' = [run EXCEPT ![r] =
                 [IdleRun EXCEPT !.pc = "done", !.guild_id = guild_id,
                                 !.store_ops = << [op |-> "set", key |-> guild_id,
                                                   value |-> now, ok |-> TRUE] >>,
                                 !.result = [error |-> "Failed to generate summary"]]]
    /\ store' = update_last_summary_timestamp(guild_id, now, TRUE)
    /\ UNCHANGED << now, chan, posts, call >>

\* mutant: there is no outer except, the ValueError leaves the function
ResolveRaises_escapes(r, guild_id) ==
    /\ may_start(r)
    /\ ~numeric(guild_id)
    /\ run' = [run EXCEPT ![r] =
                 [IdleRun EXCEPT !.pc = "done", !.guild_id = guild_id]]
    /\ UNCHANGED << now, store, chan, posts, call >>

\* get_guild_summary: int(guild_id) raises, the outer except answers
ResolveRaises(r, guild_id) ==
    /\ may_start(r)
    /\ ~numeric(guild_id)
    /\ run' = [run EXCEPT ![r] =
                 [IdleRun EXCEPT !.pc = "done", !.guild_id = guild_id,
                                 !.result = [error |-> "Failed to generate summary"]]]
    /\ UNCHANGED << now, store, chan, posts, call >>

\* mutant: the timestamp is updated before the guild is looked up
ResolveNotFound_updates_first(r, guild_id) ==
    /\ may_start(r)
    /\ numeric(guild_id)
    /\ ~guild_found(guild_id)
    /\ run' = [run EXCEPT ![r] =
                 [IdleRun EXCEPT !.pc = "done", !.guild_id = guild_id,
                                 !.store_ops = << [op |-> "set", key |-> guild_id,
                                                   value |-> now, ok |-> TRUE] >>,
                                 !.result = [error |-> "Guild not found"]]]
    /\ store' = update_last_summary_timestamp(guild_id, now, TRUE)
    /\ UNCHANGED << now, chan, posts, call >>

\* get_guild_summary: bot.get_guild returns None
ResolveNotFound(r, guild_id) ==
    /\ may_start(r)
    /\ numeric(guild_id)
    /\ ~guild_found(guild_id)
    /\ run' = [run EXCEPT ![r] =
                 [IdleRun EXCEPT !.pc = "done", !.guild_id = guild_id,
                                 !.result = [error |-> "Guild not found"]]]
    /\ UNCHANGED << now, store, chan, posts, call >>

\* get_guild_summary up to its first channel.history
Resolve(r, guild_id, read_ok, write_ok) ==
    /\ may_start(r)
    /\ numeric(guild_id)
    /\ guild_found(guild_id)
    /\ proceed(r, resolve(guild_id, read_ok), write_ok)
    /\ UNCHANGED << now, chan, posts, call >>

\* one channel's history is read to its end
FetchOk(r, write_ok) ==
    /\ run[r].pc = "fetch"
    /\ proceed(r, process_channel(run[r], "ok"), write_ok)
    /\ UNCHANGED << now, chan, posts, call >>

\* mutant: Forbidden is not caught in the loop and ends the run
FetchForbidden_aborts(r, write_ok) ==
    /\ run[r].pc = "fetch"
    /\ run' = [run EXCEPT ![r] =
                 [@ EXCEPT !.pc = "done",
                           !.result = [error |-> "Failed to generate summary"]]]
    /\ UNCHANGED << now, store, chan, posts, call >>

\* channel.history raises discord.Forbidden
FetchForbidden(r, write_ok) ==
    /\ run[r].pc = "fetch"
    /\ proceed(r, process_channel(run[r], "forbidden"), write_ok)
    /\ UNCHANGED << now, chan, posts, call >>

\* channel.history raises anything else, at its first page or a later one
FetchError(r, write_ok) ==
    /\ run[r].pc = "fetch"
    /\ proceed(r, process_channel(run[r], "error"), write_ok)
    /\ UNCHANGED << now, chan, posts, call >>

Next ==
    \/ \E c \in TextChannelIds, n \in BurstSizes : Post(c, n)
    \/ \E r \in RunIds, g \in GuildIdInputs : ResolveRaises(r, g)
    \/ \E r \in RunIds, g \in GuildIdInputs : ResolveNotFound(r, g)
    \/ \E r \in RunIds, g \in GuildIdInputs, ro \in BOOLEAN, wo \in BOOLEAN :
          Resolve(r, g, ro, wo)
    \/ \E r \in RunIds, wo \in BOOLEAN : FetchOk(r, wo)
    \/ \E r \in RunIds, wo \in BOOLEAN : FetchForbidden(r, wo)
    \/ \E r \in RunIds, wo \in BOOLEAN : FetchError(r, wo)

Spec == Init /\ [][Next]_vars

\* ------------------------------------------------------- reading a frame
\* the run returned a digest / an error result ("error" in summary_data)
Digest(r) == run[r].pc = "done" /\ "error" \notin DOMAIN run[r].result
ErrorResult(r) == run[r].pc = "done" /\ "error" \in DOMAIN run[r].result

\* the run got past the guild lookup
Resolved(r) == run[r].pc = "fetch" \/ Digest(r)

\* the store calls of a run, by kind
OpsOf(r, kind) == SelectSeq(run[r].store_ops, LAMBDA o : o.op = kind)

\* the run's call of update_last_summary_timestamp went through
Committed(r) == Digest(r) /\ \E i \in DOMAIN run[r].store_ops :
                    run[r].store_ops[i].op = "set" /\ run[r].store_ops[i].ok

\* the digest entry of frame f for channel c, as a set (empty or one entry)
EntriesOf(f, c) ==
    {f.channel_summaries[i] : i \in {j \in DOMAIN f.channel_summaries :
                                        f.channel_summaries[j].channel_id = c}}

\* burst i of channel c, whole, is in the batch frame f summarized for c
InBatch(f, c, i) ==
    \E e \in EntriesOf(f, c) : \E j \in DOMAIN e.messages :
        /\ e.messages[j].created_at = chan[c][i].created_at
        /\ e.messages[j].n = chan[c][i].n

\* some run summarized burst i of channel c
Included(c, i) == \E r \in RunIds : InBatch(run[r], c, i)

\* ================================================================== claims
\* the step is run r returning a digest whose watermark write went through
Commits(r) == run[r].pc # "done" /\ Committed(r)'

\* C1 as stated: the stored watermark of a community never decreases, over
\* any interleaving of runs.
C1_WatermarkNeverDecreases ==
    [][\A g \in GuildIdInputs :
          (store[g].has_last /\ store'[g].has_last)
              => store'[g].last_summary >= store[g].last_summary]_vars

\* C1 amended: right after a run commits, the stored watermark is that
\* run's run_start and is >= the lower bound the run read at its start; a
\* commit lowers the stored watermark only when a run that started later
\* than the committing one has already committed.
C1_CommitNotBelowOwnRead ==
    [][\A r \in RunIds : Commits(r) =>
          LET g == run'[r].guild_id IN
          /\ store'[g].has_last
          /\ store'[g].last_summary = run'[r].current_time
          /\ store'[g].last_summary >= run'[r].last_timestamp
          /\ (store[g].has_last /\ store'[g].last_summary < store[g].last_summary)
                => \E q \in RunIds \ {r} :
                      /\ Committed(q)
                      /\ run[q].guild_id = g
                      /\ run[q].current_time > run'[r].current_time]_vars

\* a run that read a stored watermark has committed a later one over it
C1_Witness ==
    \E r \in RunIds :
        /\ Committed(r)
        /\ run[r].store_ops[1].ok /\ run[r].store_ops[1].doc.has_last
        /\ store[run[r].guild_id] = Doc(run[r].current_time)
        /\ run[r].current_time > run[r].last_timestamp

RECURSIVE QualifyingUpTo(_, _, _)
\* how many messages of channel c up to burst i are newer than `after`
QualifyingUpTo(c, i, after) ==
    IF i = 0 THEN 0
    ELSE QualifyingUpTo(c, i - 1, after)
         + (IF chan[c][i].created_at > after THEN chan[c][i].n ELSE 0)

\* C2 as stated: the stored watermark never moves past a message of a text
\* channel that was created after the watermark some run read and that no
\* run has included in its summarized batch.
C2_NoMessageSkipped ==
    \A g \in {"1", "2"} : store[g].has_last =>
        \A k \in DOMAIN text_channels(g) :
            LET c == text_channels(g)[k].id IN
            \A i \in DOMAIN chan[c] :
                ( /\ chan[c][i].created_at <= store[g].last_summary
                  /\ \E r \in RunIds : /\ Committed(r)
                                       /\ run[r].guild_id = g
                                       /\ run[r].last_timestamp < chan[c][i].created_at
                                       /\ run[r].current_time >= chan[c][i].created_at )
                => Included(c, i)

\* C2 amended: within one run, every message of a text channel whose fetch
\* succeeded, created after the run's lower bound and no later than its
\* run_start, is in the batch the run summarized, as long as it is among
\* the 500 oldest messages after the lower bound.
C2_WindowIncludedWhenFetched ==
    \A r \in RunIds : Resolved(r) =>
        \A k \in DOMAIN run[r].fetched : run[r].fetched[k] =>
            LET c == text_channels(run[r].guild_id)[k].id IN
            \A i \in DOMAIN chan[c] :
                ( /\ chan[c][i].created_at > run[r].last_timestamp
                  /\ chan[c][i].created_at <= run[r].current_time
                  /\ QualifyingUpTo(c, i, run[r].last_timestamp) <= HISTORY_LIMIT )
                => InBatch(run[r], c, i)

\* a committed run read both channels, one holding a message of its window
C2_Witness ==
    \E r \in RunIds :
        /\ Committed(r)
        /\ run[r].fetched = << TRUE, TRUE >>
        /\ \E i \in DOMAIN chan[11] :
              /\ chan[11][i].created_at > run[r].last_timestamp
              /\ chan[11][i].created_at <= run[r].current_time
              /\ InBatch(run[r], 11, i)

\* C3: the instant a run hands to the watermark store is the run_start it
\* captured before the first fetch, also when time has passed since, and
\* it is the period_to of the returned digest.
C3_CommitsRunStart ==
    \A r \in RunIds : Digest(r) =>
        /\ Len(OpsOf(r, "set")) = 1
        /\ OpsOf(r, "set")[1].value = run[r].current_time
        /\ OpsOf(r, "set")[1].value = run[r].result.summary_period.to
        /\ OpsOf(r, "set")[1].value <= now

\* a run committed after time had passed since its run_start
C3_Witness ==
    \E r \in RunIds :
        /\ Committed(r)
        /\ run[r].current_time < now
        /\ \E i \in DOMAIN chan[11] : chan[11][i].created_at > run[r].current_time
                                      /\ InBatch(run[r], 11, i)
        /\ store[run[r].guild_id] = Doc(run[r].current_time)

\* C4: a run on a guild the platform cannot resolve returns an error result
\* with a cause, makes no call to the watermark store, and that guild's
\* watermark stays absent.
C4_NotFoundTouchesNothing ==
    \A r \in RunIds :
        (run[r].pc = "done" /\ numeric(run[r].guild_id)
                            /\ ~guild_found(run[r].guild_id))
        => /\ ErrorResult(r)
           /\ run[r].result.error = "Guild not found"
           /\ run[r].store_ops = << >>
           /\ store[run[r].guild_id] = NoDoc

\* a run on the unknown guild returned while another run had committed
C4_Witness ==
    \E r, q \in RunIds :
        /\ ErrorResult(r) /\ run[r].guild_id = "404"
        /\ Committed(q) /\ store[run[q].guild_id].has_last

\* the step is run r returning an error result
ReturnsError(r) == run[r].pc # "done" /\ ErrorResult(r)'

\* C5: a run that returns an error result has made no write and the step
\* that returns it leaves every stored watermark as it was; a run that
\* returns a digest has called update_last_summary_timestamp exactly once,
\* with its run_start.
C5_CommitOrUntouched ==
    /\ [](\A r \in RunIds :
            /\ ErrorResult(r) => OpsOf(r, "set") = << >>
            /\ Digest(r) => /\ Len(OpsOf(r, "set")) = 1
                            /\ OpsOf(r, "set")[1].key = run[r].guild_id
                            /\ OpsOf(r, "set")[1].value = run[r].current_time)
    /\ [][\A r \in RunIds : ReturnsError(r) => store' = store]_vars

\* one run failed on a malformed guild id, another returned a digest
C5_Witness ==
    \E r, q \in RunIds :
        /\ ErrorResult(r) /\ run[r].guild_id = "abc"
        /\ Digest(q) /\ run[q].guild_id = "1"
        /\ Len(OpsOf(q, "set")) = 1

\* C6: get_last_summary_timestamp always returns to its caller: the stored
\* last_summary when the read succeeds and the document has one, and now
\* minus 24 hours when there is no document, no last_summary in it, or the
\* read raises.
C6_GetNeverFails ==
    \A r \in RunIds :
        /\ (run[r].pc = "done" /\ numeric(run[r].guild_id)
                               /\ guild_found(run[r].guild_id)) => Digest(r)
        /\ Resolved(r) =>
              LET get == run[r].store_ops[1] IN
              /\ get.op = "get" /\ get.key = run[r].guild_id
              /\ get.value = run[r].last_timestamp
              /\ run[r].last_timestamp =
                    IF get.ok /\ get.doc.exists /\ get.doc.has_last
                    THEN get.doc.last_summary
                    ELSE run[r].current_time - DEFAULT_LOOKBACK

\* one run read a stored watermark, another fell back to the default
\* although a watermark was stored, because its read raised
C6_Witness ==
    \E r, q \in RunIds :
        /\ Resolved(r) /\ run[r].store_ops[1].ok /\ run[r].store_ops[1].doc.has_last
        /\ run[r].last_timestamp = run[r].store_ops[1].doc.last_summary
        /\ Resolved(q) /\ ~run[q].store_ops[1].ok /\ run[q].store_ops[1].doc.has_last
        /\ run[q].last_timestamp # run[q].store_ops[1].doc.last_summary

\* the watermark write of run r raised
WriteFailed(r) == Digest(r) /\ OpsOf(r, "set") # << >> /\ ~OpsOf(r, "set")[1].ok

\* the step is run q starting on the guild of run r, whose write failed,
\* with the store still as r found it
StartsAfterFailedWrite(r, q) ==
    /\ r # q
    /\ WriteFailed(r)
    /\ run[q].pc = "idle" /\ Resolved(q)'
    /\ run'[q].guild_id = run[r].guild_id
    /\ store[run[r].guild_id] = run[r].store_ops[1].doc

\* C7 as stated: after a run whose watermark write failed, the next run
\* uses the same lower bound again.
C7_NextRunSameLowerBound ==
    [][\A r, q \in RunIds : StartsAfterFailedWrite(r, q)
          => run'[q].last_timestamp = run[r].last_timestamp]_vars

\* C7 amended: a failed watermark write is not propagated: the run returns
\* a digest and the store keeps its previous content; the next run then
\* reads what the failed run read: with a stored watermark and successful
\* reads it uses the same lower bound again, and otherwise its lower bound
\* is its own now minus 24 hours.
C7_FailedWriteKeepsStore ==
    /\ [](\A r \in RunIds :
            (run[r].pc = "done" /\ OpsOf(r, "set") # << >>) => Digest(r))
    /\ [][\A r \in RunIds : (run[r].pc # "done" /\ WriteFailed(r)')
              => store' = store]_vars
    /\ [][\A r, q \in RunIds : StartsAfterFailedWrite(r, q) =>
              LET g == run[r].guild_id
                  get == run'[q].store_ops[1] IN
              IF get.ok /\ store[g].has_last
              THEN /\ run'[q].last_timestamp = store[g].last_summary
                   /\ run[r].store_ops[1].ok
                        => run'[q].last_timestamp = run[r].last_timestamp
              ELSE run'[q].last_timestamp = now - DEFAULT_LOOKBACK]_vars

\* after a failed write over a stored watermark, a later run reads the same
\* lower bound again
C7_Witness ==
    \E r, q \in RunIds :
        /\ WriteFailed(r) /\ Resolved(q) /\ run[q].guild_id = run[r].guild_id
        /\ run[r].store_ops[1].ok /\ run[r].store_ops[1].doc.has_last
        /\ run[q].store_ops[1].ok
        /\ run[q].current_time > run[r].current_time
        /\ run[q].last_timestamp = run[r].last_timestamp
        /\ store[run[r].guild_id] = run[r].store_ops[1].doc

RECURSIVE SumTotals(_)
\* the message counts of a list of channel digests, added up
SumTotals(entries) ==
    IF entries = << >> THEN 0
    ELSE Head(entries).summary.total_messages + SumTotals(Tail(entries))

\* C8: a channel whose fetch failed has no digest and adds nothing to the
\* totals, the channels after it are still read, and the run returns a
\* digest, never an error result.
C8_FailedChannelSkipped ==
    \A r \in RunIds : (run[r].store_ops # << >>) =>
        LET f == run[r] IN
        /\ \A k \in DOMAIN f.fetched :
              ~f.fetched[k] => EntriesOf(f, text_channels(f.guild_id)[k].id) = {}
        /\ f.total_messages = SumTotals(f.channel_summaries)
        /\ f.total_channels_with_activity = Len(f.channel_summaries)
        /\ \A i \in DOMAIN f.channel_summaries :
              \E k \in DOMAIN f.fetched :
                  /\ f.fetched[k]
                  /\ text_channels(f.guild_id)[k].id = f.channel_summaries[i].channel_id
        /\ f.pc = "done" => /\ Digest(r)
                            /\ Len(f.fetched) = Len(text_channels(f.guild_id))
        /\ \A k \in DOMAIN f.fetched :
              LET c == text_channels(f.guild_id)[k].id IN
              (f.fetched[k] /\ \E i \in DOMAIN chan[c] :
                                  /\ chan[c][i].created_at > f.last_timestamp
                                  /\ chan[c][i].created_at <= f.current_time)
              => EntriesOf(f, c) # {}

\* a digest whose first channel failed with messages waiting in it and
\* whose second channel was read and summarized
C8_Witness ==
    \E r \in RunIds :
        /\ Digest(r)
        /\ run[r].fetched = << FALSE, TRUE >>
        /\ \E i \in DOMAIN chan[11] : chan[11][i].created_at > run[r].last_timestamp
                                       /\ chan[11][i].created_at <= run[r].current_time
        /\ Len(run[r].result.channel_summaries) = 1
        /\ run[r].result.channel_summaries[1].channel_id = 13

\* C9: every channel digest of a frame or of a returned digest counts at
\* least one message; a channel read without error that gave no message
\* after the lower bound has no digest.
C9_NoEmptyChannelDigest ==
    \A r \in RunIds :
        /\ \A i \in DOMAIN run[r].channel_summaries :
              /\ run[r].channel_summaries[i].summary.total_messages >= 1
              /\ run[r].channel_summaries[i].messages # << >>
        /\ Digest(r) =>
              \A i \in DOMAIN run[r].result.channel_summaries :
                  run[r].result.channel_summaries[i].summary.total_messages >= 1
        /\ \A k \in DOMAIN run[r].fetched :
              LET c == text_channels(run[r].guild_id)[k].id IN
              (\A i \in DOMAIN chan[c] : chan[c][i].created_at <= run[r].last_timestamp)
              => EntriesOf(run[r], c) = {}

\* a digest of two channels read without error that lists only one of them
C9_Witness ==
    \E r \in RunIds :
        /\ Digest(r)
        /\ run[r].fetched = << TRUE, TRUE >>
        /\ Len(run[r].result.channel_summaries) = 1

\* C10: every channel digest counts at most 500 messages and every message
\* of its batch was created strictly after the run's lower bound.
C10_CappedAndAfterLowerBound ==
    \A r \in RunIds : \A i \in DOMAIN run[r].channel_summaries :
        LET e == run[r].channel_summaries[i] IN
        /\ e.summary.total_messages <= HISTORY_LIMIT
        /\ e.summary.total_messages = len(e.messages)
        /\ \A j \in DOMAIN e.messages : e.messages[j].created_at > run[r].last_timestamp

\* a channel holding 600 messages after the lower bound has a digest of 500
C10_Witness ==
    \E r \in RunIds : \E i \in DOMAIN run[r].channel_summaries :
        LET e == run[r].channel_summaries[i] IN
        /\ e.summary.total_messages = HISTORY_LIMIT
        /\ QualifyingUpTo(e.channel_id, Len(chan[e.channel_id]), run[r].last_timestamp)
              > HISTORY_LIMIT
        /\ Digest(r)

\* C11: in every returned digest, total_messages is the sum of the message
\* counts of its channel digests and total_channels_with_activity is the
\* number of its channel digests.
C11_TotalsMatchDigests ==
    \A r \in RunIds : Digest(r) =>
        /\ run[r].result.total_messages = SumTotals(run[r].result.channel_summaries)
        /\ run[r].result.total_channels_with_activity
              = Len(run[r].result.channel_summaries)

\* a digest of two channels, one holding 300 messages and one holding 1
C11_Witness ==
    \E r \in RunIds :
        /\ Digest(r)
        /\ run[r].result.total_channels_with_activity = 2
        /\ run[r].result.total_messages = 301
        /\ \E i \in DOMAIN run[r].result.channel_summaries :
              run[r].result.channel_summaries[i].summary.total_messages = 300

\* the place of channel c in the text channels of guild g (0: not among them)
PlaceOf(g, c) ==
    LET ks == {k \in DOMAIN text_channels(g) : text_channels(g)[k].id = c}
    IN IF ks = {} THEN 0 ELSE CHOOSE k \in ks : TRUE

\* C12: the channel digests of a frame and of a returned digest follow the
\* platform's channel list: each is of a text channel of the guild that was
\* read without error, they are in strictly increasing list position (so no
\* channel is listed twice), and every channel read without error that held
\* a message of the run's window is listed.
C12_DigestsInChannelOrder ==
    \A r \in RunIds : (run[r].store_ops # << >>) =>
        LET f == run[r]
            g == f.guild_id
            listed == IF Digest(r) THEN f.result.channel_summaries
                      ELSE f.channel_summaries
        IN /\ Digest(r) => f.result.channel_summaries = f.channel_summaries
           /\ \A i \in DOMAIN listed :
                 LET k == PlaceOf(g, listed[i].channel_id) IN
                 /\ k \in DOMAIN f.fetched
                 /\ f.fetched[k]
                 /\ listed[i].channel_id \in TextChannelIds
           /\ \A i, j \in DOMAIN listed :
                 i < j => PlaceOf(g, listed[i].channel_id)
                            < PlaceOf(g, listed[j].channel_id)
           /\ \A k \in DOMAIN f.fetched :
                 LET c == text_channels(g)[k].id IN
                 (f.fetched[k] /\ \E i \in DOMAIN chan[c] :
                                     /\ chan[c][i].created_at > f.last_timestamp
                                     /\ chan[c][i].created_at <= f.current_time)
                 => \E i \in DOMAIN listed : listed[i].channel_id = c

\* a digest lists channel 11 before channel 13, the voice channel between
\* them left out
C12_Witness ==
    \E r \in RunIds :
        /\ Digest(r)
        /\ Len(run[r].result.channel_summaries) = 2
        /\ run[r].result.channel_summaries[1].channel_id = 11
        /\ run[r].result.channel_summaries[2].channel_id = 13

\* the keys of the dictionary get_guild_summary returns on success
DigestKeys ==
    {"guild_id", "summary_period", "total_channels_with_activity",
     "total_messages", "channel_summaries"}

\* C18: get_guild_summary always returns a structured result, whatever
\* failed inside the run: a finished run has either an error result (the
\* only key is "error") or a complete digest, never neither and never both;
\* a run whose guild id cannot be parsed or resolved ends in an error
\* result, a run past the guild lookup ends in a digest even when store
\* calls and channel reads failed.
C18_AlwaysStructuredResult ==
    \A r \in RunIds :
        /\ run[r].pc \in {"idle", "fetch", "done"}
        /\ run[r].pc # "done" => run[r].result = NoResult
        /\ run[r].pc = "done" =>
              /\ run[r].result # NoResult
              /\ DOMAIN run[r].result \in {{"error"}, DigestKeys}
              /\ ErrorResult(r) <=> ~(DOMAIN run[r].result = DigestKeys)
              /\ ErrorResult(r) <=> ~(numeric(run[r].guild_id)
                                       /\ guild_found(run[r].guild_id))

\* one run ended in an error result on an unparsable guild id, another
\* returned a digest although its store read, a channel read and its store
\* write all raised
C18_Witness ==
    \E r, q \in RunIds :
        /\ ErrorResult(r) /\ run[r].guild_id = "abc"
        /\ DOMAIN run[q].result = DigestKeys
        /\ ~run[q].store_ops[1].ok
        /\ \E k \in DOMAIN run[q].fetched : ~run[q].fetched[k]
        /\ WriteFailed(q)

\* C20: nothing is retried within a run: every call of channel.history
\* moves the loop to the next text channel, so the k-th call of a run is
\* the only call for the k-th text channel, there are never more calls than
\* text channels, a finished run has made exactly one call per text channel,
\* and a channel whose call failed has no digest.
C20_EachChannelFetchedOnce ==
    \A r \in RunIds : (run[r].store_ops # << >>) =>
        LET f == run[r] IN
        /\ Len(f.fetched) = f.idx
        /\ f.idx <= Len(text_channels(f.guild_id))
        /\ f.pc = "done" => Len(f.fetched) = Len(text_channels(f.guild_id))
        /\ f.pc = "fetch" => f.idx < Len(text_channels(f.guild_id))
        /\ \A k \in DOMAIN f.fetched :
              ~f.fetched[k] =>
                  \A i \in DOMAIN f.channel_summaries :
                      f.channel_summaries[i].channel_id
                          # text_channels(f.guild_id)[k].id

\* a run finished after both of its channel reads failed, each asked once,
\* with messages waiting in both channels
C20_Witness ==
    \E r \in RunIds :
        /\ run[r].pc = "done"
        /\ run[r].fetched = << FALSE, FALSE >>
        /\ run[r].channel_summaries = << >>
        /\ \A c \in TextChannelIds : \E i \in DOMAIN chan[c] :
              chan[c][i].created_at > run[r].last_timestamp
              /\ chan[c][i].created_at <= run[r].current_time

\* ============================================================ text functions
\* A string of the program is a sequence of one-character strings; a word
\* taken out of it is joined into a TLA+ string.
UpperCase == << "A", "B", "C", "D", "E", "F", "G", "H", "I", "J", "K", "L", "M",
                "N", "O", "P", "Q", "R", "S", "T", "U", "V", "W", "X", "Y", "Z" >>
LowerCase == << "a", "b", "c", "d", "e", "f", "g", "h", "i", "j", "k", "l", "m",
                "n", "o", "p", "q", "r", "s", "t", "u", "v", "w", "x", "y", "z" >>
DigitChars == {"0", "1", "2", "3", "4", "5", "6", "7", "8", "9"}

\* the letters and digits
AlnumChars ==
    {UpperCase[i] : i \in DOMAIN UpperCase} \cup {LowerCase[i] : i \in DOMAIN LowerCase}
    \cup DigitChars

\* c.isalnum()
isalnum(c) == c \in AlnumChars

\* c.isspace()
isspace(c) == c \in {" ", "\n", "\t"}

\* the lower-case letter of each capital
ToLower ==
    [c \in {UpperCase[i] : i \in DOMAIN UpperCase} |->
        LowerCase[CHOOSE i \in DOMAIN UpperCase : UpperCase[i] = c]]

\* text.lower()
lower(text) ==
    [i \in DOMAIN text |->
        IF text[i] \in DOMAIN ToLower THEN ToLower[text[i]] ELSE text[i]]

RECURSIVE split(_)
\* text.split(): the maximal runs of non-whitespace characters
split(text) ==
    IF text = << >> THEN << >>
    ELSE IF isspace(Head(text)) THEN split(Tail(text))
    ELSE LET ends == {i \in DOMAIN text : isspace(text[i])}
             n == IF ends = {} THEN Len(text) + 1
                  ELSE CHOOSE i \in ends : \A j \in ends : i <= j
         IN << SubSeq(text, 1, n - 1) >> \o split(SubSeq(text, n, Len(text)))

RECURSIVE join(_)
\* ''.join(chars), halving the sequence so that long words stay shallow
join(chars) ==
    IF chars = << >> THEN ""
    ELSE IF Len(chars) = 1 THEN chars[1]
    ELSE LET half == Len(chars) \div 2
         IN join(SubSeq(chars, 1, half)) \o join(SubSeq(chars, half + 1, Len(chars)))

RECURSIVE join_with_space(_)
\* " ".join(contents)
join_with_space(contents) ==
    IF contents = << >> THEN << >>
    ELSE IF Len(contents) = 1 THEN Head(contents)
    ELSE Head(contents) \o << " " >> \o join_with_space(Tail(contents))

\* stop_words of extract_keywords
stop_words ==
    {"the", "a", "an", "and", "or", "but", "in", "on", "at", "to", "for", "of",
     "with", "by", "is", "are", "was", "were", "be", "been", "have", "has",
     "had", "do", "does", "did", "will", "would", "could", "should", "may",
     "might", "can", "this", "that", "these", "those", "i", "you", "he", "she",
     "it", "we", "they", "me", "him", "her", "us", "them"}

\* mutant: the sort puts the later of two equal keys first
sorted_reverse_unstable(pairs) ==
    LET RECURSIVE build(_)
        build(n) ==
            IF n = 0 THEN << >>
            ELSE LET s == build(n - 1)
                     k == Cardinality({i \in DOMAIN s : s[i][2] > pairs[n][2]})
                 IN SubSeq(s, 1, k) \o << pairs[n] >> \o SubSeq(s, k + 1, Len(s))
    IN build(Len(pairs))

\* sorted(pairs, key=lambda x: x[1], reverse=True): Python's sort is stable,
\* also with reverse=True, so pairs of equal key keep their input order.
sorted_reverse(pairs) ==
    LET RECURSIVE build(_)
        build(n) ==
            IF n = 0 THEN << >>
            ELSE LET s == build(n - 1)
                     k == Cardinality({i \in DOMAIN s : s[i][2] >= pairs[n][2]})
                 IN SubSeq(s, 1, k) \o << pairs[n] >> \o SubSeq(s, k + 1, Len(s))
    IN build(Len(pairs))

\* seq[:stop] of Python: a negative stop counts from the end
slice_to(seq, stop) ==
    LET n == Len(seq)
        last == IF stop < 0 THEN (IF n + stop < 0 THEN 0 ELSE n + stop)
                ELSE IF stop > n THEN n ELSE stop
    IN SubSeq(seq, 1, last)

\* word_freq[word] = word_freq.get(word, 0) + 1, on a dict kept as the
\* sequence of its items in insertion order
count_word(word_freq, word) ==
    IF \E i \in DOMAIN word_freq : word_freq[i][1] = word
    THEN [i \in DOMAIN word_freq |->
             IF word_freq[i][1] = word
             THEN << word, word_freq[i][2] + 1 >> ELSE word_freq[i]]
    ELSE Append(word_freq, << word, 1 >>)

\* mutant: the length filter lets words of two characters through
keep_word_two(word) == Len(word) >= 2 /\ word \notin stop_words

\* len(word) > 2 and word not in stop_words
keep_word(word) == Len(word) > 2 /\ word \notin stop_words

\* the loop `for word in words` of extract_keywords
word_frequencies(words) ==
    LET RECURSIVE fold(_)
        fold(n) ==
            IF n = 0 THEN << >>
            ELSE LET word == join(SelectSeq(words[n], LAMBDA c : isalnum(c)))
                 IN IF keep_word(word) THEN count_word(fold(n - 1), word)
                    ELSE fold(n - 1)
    IN fold(Len(words))

\* extract_keywords(text, max_keywords)
extract_keywords(text, max_keywords) ==
    LET words == split(lower(text))
        sorted_words == sorted_reverse(word_frequencies(words))
        top == slice_to(sorted_words, max_keywords)
    IN [i \in DOMAIN top |-> top[i][1]]

\* mutant: reactions do not count
score_ignores_reactions(msg) == Len(msg.content)

\* score = len(msg.content) + (len(msg.reactions) * 10)
score(msg) == Len(msg.content) + (Len(msg.reactions) * REACTION_WEIGHT)

\* mutant: a body of exactly 200 characters is marked too
highlight_content_marks_limit(content) ==
    IF Len(content) >= CONTENT_LIMIT
    THEN SubSeq(content, 1, CONTENT_LIMIT) \o << ".", ".", "." >>
    ELSE content

\* msg.content[:200] + "..." if len(msg.content) > 200 else msg.content
highlight_content(content) ==
    IF Len(content) > CONTENT_LIMIT
    THEN SubSeq(content, 1, CONTENT_LIMIT) \o << ".", ".", "." >>
    ELSE content

\* created_at.isoformat()
isoformat(t) == << "iso", t >>

\* summarize_messages(messages) in full: total, highlights and keywords
summarize_messages_dict(messages) ==
    IF messages = << >>
    THEN [total_messages |-> 0, highlights |-> << >>, keywords |-> << >>]
    ELSE LET messages_with_score ==
                 [i \in DOMAIN messages |-> << messages[i], score(messages[i]) >>]
             top_messages == slice_to(sorted_reverse(messages_with_score),
                                      MAX_HIGHLIGHTS)
             all_text == join_with_space([i \in DOMAIN messages |->
                                             messages[i].content])
         IN [total_messages |-> Len(messages),
             highlights |->
                 [i \in DOMAIN top_messages |->
                     LET msg == top_messages[i][1] IN
                     [author |-> msg.author,
                      content |-> highlight_content(msg.content),
                      reactions |-> Len(msg.reactions),
                      timestamp |-> isoformat(msg.created_at)]],
             keywords |-> extract_keywords(all_text, DEFAULT_MAX_KEYWORDS)]

\* ------------------------------------------- summarize_messages on its own
\* length of the body and number of reactions of the messages tried: a body
\* at the content limit whose reaction lifts it to the score of a longer
\* body, and a body one character past the limit
MessageKinds ==
    { [length |-> 200, reactions |-> 1], [length |-> 210, reactions |-> 0],
      [length |-> 201, reactions |-> 0] }

\* the characters message bodies are cut from, over and over; a body is
\* one long word
Phrase == << "f", "o", "x", ",", "T", "h", "e", "-",
             "q", "u", "i", "c", "k", "!" >>

\* the i-th message of a batch: discord.Message with the fields read by
\* summarize_messages; bodies of different messages start at different
\* places of the phrase
message(kind, i) ==
    [author |-> i,
     content |-> [j \in 1..kind.length |-> Phrase[((i + j) % Len(Phrase)) + 1]],
     reactions |-> [j \in 1..kind.reactions |-> "+1"],
     created_at |-> i]

\* the batches handed to summarize_messages, oldest message first
Batches ==
    { [i \in DOMAIN kinds |-> message(kinds[i], i)] :
        kinds \in UNION { [1..n -> MessageKinds] : n \in 0..MaxBatch } }

\* nothing of the engine moves while a function is studied on its own
EngineAtRest ==
    /\ now = 0
    /\ store = [g \in GuildIdInputs |-> NoDoc]
    /\ chan = [c \in ChannelIds |-> << >>]
    /\ posts = 0
    /\ run = [r \in RunIds |-> IdleRun]

InitSummarize ==
    /\ EngineAtRest
    /\ call \in { [fn |-> "summarize_messages", messages |-> b,
                   returned |-> FALSE, value |-> NoResult] : b \in Batches }

\* summarize_messages(messages) returns
ReturnSummary ==
    /\ call.fn = "summarize_messages"
    /\ ~call.returned
    /\ call' = [call EXCEPT !.returned = TRUE,
                            !.value = summarize_messages_dict(call.messages)]
    /\ UNCHANGED << now, store, chan, posts, run >>

NextSummarize == ReturnSummary

SpecSummarize == InitSummarize /\ [][NextSummarize]_vars

\* --------------------------------------------- extract_keywords on its own
\* the words texts are made of: a stop word with a capital, words that
\* differ by case and punctuation only, a word of two letters around a dot
Vocabulary ==
    { << "T", "h", "e" >>, << "q", "u", "i", "c", "k" >>,
      << "b", "r", "o", "w", "n" >>, << "f", "o", "x", "." >>,
      << "F", "o", "x" >>, << "a", ".", "b" >> }

Texts ==
    { join_with_space(ws) :
        ws \in UNION { [1..n -> Vocabulary] : n \in 0..MaxWords } }

\* values of max_keywords: negative, zero, fewer and more than the words
MaxKeywordsInputs == {-1, 0, 2, DEFAULT_MAX_KEYWORDS}

InitKeywords ==
    /\ EngineAtRest
    /\ call \in { [fn |-> "extract_keywords", text |-> t, max_keywords |-> k,
                   returned |-> FALSE, value |-> NoResult] :
                  t \in Texts, k \in MaxKeywordsInputs }

\* extract_keywords(text, max_keywords) returns
ReturnKeywords ==
    /\ call.fn = "extract_keywords"
    /\ ~call.returned
    /\ call' = [call EXCEPT !.returned = TRUE,
                            !.value = extract_keywords(call.text, call.max_keywords)]
    /\ UNCHANGED << now, store, chan, posts, run >>

NextKeywords == ReturnKeywords

SpecKeywords == InitKeywords /\ [][NextKeywords]_vars

\* the call under study has returned
Returned(fn) == call.fn = fn /\ call.returned

\* the message of the batch a highlight was made of
SourceOf(h) == call.messages[h.timestamp[2]]

\* C13: summarize_messages returns at most 5 highlights, each made of one
\* message of the batch; they are in non-increasing order of
\* len(body) + 10 * reactions, and of two highlights of equal score the one
\* that came first in the batch comes first; the empty batch gives no
\* highlight.
C13_HighlightsRankedAndStable ==
    Returned("summarize_messages") =>
        LET h == call.value.highlights
            Score(m) == Len(m.content) + 10 * Len(m.reactions)
        IN /\ Len(h) <= 5
           /\ call.messages = << >> => h = << >>
           /\ \A i \in DOMAIN h :
                 /\ h[i].timestamp[2] \in DOMAIN call.messages
                 /\ h[i].reactions = Len(SourceOf(h[i]).reactions)
                 /\ h[i].author = SourceOf(h[i]).author
           /\ \A i, j \in DOMAIN h :
                 i < j =>
                    /\ Score(SourceOf(h[i])) >= Score(SourceOf(h[j]))
                    /\ Score(SourceOf(h[i])) = Score(SourceOf(h[j]))
                          => SourceOf(h[i]).created_at < SourceOf(h[j]).created_at

\* six messages gave five highlights, two of them of equal score made of
\* bodies of different length, with a reaction and without
C13_Witness ==
    /\ Returned("summarize_messages")
    /\ Len(call.messages) = 6
    /\ Len(call.value.highlights) = 5
    /\ \E i \in DOMAIN call.value.highlights :
          /\ i + 1 \in DOMAIN call.value.highlights
          /\ Len(SourceOf(call.value.highlights[i]).content) = 210
          /\ call.value.highlights[i + 1].reactions = 1
          /\ call.value.highlights[5].reactions = 0

\* C14: the content of a highlight is the body itself when the body has at
\* most 200 characters, and the first 200 characters of the body followed
\* by "..." when it has more.
C14_ContentTruncatedPast200 ==
    Returned("summarize_messages") =>
        \A i \in DOMAIN call.value.highlights :
            LET h == call.value.highlights[i]
                body == SourceOf(h).content
            IN IF Len(body) <= 200
               THEN h.content = body
               ELSE /\ Len(h.content) = 203
                    /\ \A j \in 1..200 : h.content[j] = body[j]
                    /\ \A j \in 201..203 : h.content[j] = "."

\* a body of exactly 200 characters came back whole and a body of 201
\* characters came back cut and marked
C14_Witness ==
    /\ Returned("summarize_messages")
    /\ \E i, j \in DOMAIN call.value.highlights :
          /\ Len(SourceOf(call.value.highlights[i]).content) = 200
          /\ call.value.highlights[i].content = SourceOf(call.value.highlights[i]).content
          /\ Len(SourceOf(call.value.highlights[j]).content) = 201
          /\ Len(call.value.highlights[j].content) = 203

\* the words of the text under study as extract_keywords sees them: lower
\* case, without the characters that are not letters or digits
NormalWords ==
    LET words == split(call.text)
    IN [i \in DOMAIN words |-> join(SelectSeq(lower(words[i]), LAMBDA c : isalnum(c)))]

\* how often a keyword occurs in the text, and where it occurs first
CountOf(kw) == Cardinality({i \in DOMAIN NormalWords : NormalWords[i] = kw})
FirstOf(kw) ==
    CHOOSE i \in DOMAIN NormalWords :
        /\ NormalWords[i] = kw
        /\ \A j \in DOMAIN NormalWords : NormalWords[j] = kw => i <= j

\* C15 as stated: for every text and every max_keywords, extract_keywords
\* returns no stop word and no token of length <= 2, at most max_keywords
\* elements, and nothing for an empty or all-stop-word text.
C15_FilteredAndCapped ==
    Returned("extract_keywords") =>
        /\ \A i \in DOMAIN call.value :
              call.value[i] \notin stop_words /\ Len(call.value[i]) > 2
        /\ Len(call.value) <= call.max_keywords
        /\ (\A i \in DOMAIN NormalWords : NormalWords[i] \in stop_words)
              => call.value = << >>

\* C15 amended: for every text and every max_keywords, extract_keywords
\* returns no stop word and no token of length <= 2, and nothing for an
\* empty or all-stop-word text; for max_keywords >= 0 the output has at most
\* max_keywords elements, and for max_keywords < 0 it has the number of
\* distinct keywords of the text minus |max_keywords| elements (none when
\* that is negative), which can be more than max_keywords.
C15_FilteredAndCappedFromZero ==
    Returned("extract_keywords") =>
        LET distinct == Cardinality({NormalWords[i] : i \in
                            {j \in DOMAIN NormalWords :
                                 /\ Len(NormalWords[j]) > 2
                                 /\ NormalWords[j] \notin stop_words}})
        IN /\ \A i \in DOMAIN call.value :
                 /\ call.value[i] \notin stop_words
                 /\ Len(call.value[i]) > 2
                 /\ CountOf(call.value[i]) >= 1
           /\ call.max_keywords >= 0 =>
                 Len(call.value) = IF distinct < call.max_keywords THEN distinct
                                   ELSE call.max_keywords
           /\ call.max_keywords < 0 =>
                 Len(call.value) = IF distinct + call.max_keywords < 0 THEN 0
                                   ELSE distinct + call.max_keywords
           /\ (\A i \in DOMAIN NormalWords : NormalWords[i] \in stop_words)
                 => call.value = << >>

\* a text with a stop word and three different keywords was cut to two
\* keywords
C15_Witness ==
    /\ Returned("extract_keywords")
    /\ call.max_keywords = 2
    /\ Len(call.value) = 2
    /\ \E i \in DOMAIN NormalWords : NormalWords[i] = "the"
    /\ Cardinality({NormalWords[i] : i \in DOMAIN NormalWords}) = 4

\* C16: the keywords returned are pairwise different and in lower case (no
\* word of the text that has a capital is returned as written), they are in
\* non-increasing order of their number of occurrences, and of two keywords
\* occurring equally often the one met first in the text comes first.
C16_RankedByCountThenFirstSeen ==
    Returned("extract_keywords") =>
        LET v == call.value
            words == split(call.text)
        IN /\ \A i, j \in DOMAIN v : i # j => v[i] # v[j]
           /\ \A k \in DOMAIN words :
                 LET written == join(SelectSeq(words[k], LAMBDA c : isalnum(c)))
                 IN written # NormalWords[k] => \A i \in DOMAIN v : v[i] # written
           /\ \A i \in DOMAIN v : CountOf(v[i]) >= 1
           /\ \A i, j \in DOMAIN v :
                 i < j =>
                    /\ CountOf(v[i]) >= CountOf(v[j])
                    /\ CountOf(v[i]) = CountOf(v[j]) => FirstOf(v[i]) < FirstOf(v[j])

\* "fox" and "quick" both occur twice, "fox" first and once with a capital:
\* "fox" is returned before "quick"
C16_Witness ==
    /\ Returned("extract_keywords")
    /\ call.value = << "fox", "quick" >>
    /\ CountOf("fox") = 2 /\ CountOf("quick") = 2
    /\ FirstOf("fox") = 1
    /\ call.text[1] = "F"

\* ===================================================== the webhook handler
\* hmac.new(key, message, sha256).hexdigest(): a digest that tells apart
\* every key and every message
hexdigest(key, text) == << "sha256", key, text >>

\* the value a sender holding `key` puts in x-signature-ed25519
signature_of(key, timestamp, body) ==
    << "v0=", hexdigest(key, << timestamp, ".", body >>) >>

\* verify_discord_signature(request_body, signature, timestamp), under the
\* DISCORD_PUBLIC_KEY of the process ("" is an unset key)
verify_discord_signature(public_key, request_body, signature, timestamp) ==
    IF public_key = "" THEN FALSE
    ELSE signature_of(public_key, timestamp, request_body) = signature

\* request bodies: JSON objects with the fields of DiscordInteraction
\* (guild_id "" is an absent or null guild_id, data.is_none a null data),
\* and a body that is not JSON
Bodies ==
    { [json |-> TRUE, type |-> t, data |-> d, guild_id |-> g] :
        t \in {1, 2, 3},
        d \in { [is_none |-> TRUE, name |-> ""],
                [is_none |-> FALSE, name |-> "summarize"],
                [is_none |-> FALSE, name |-> "unknown_command"] },
        g \in GuildIdInputs \cup {""} }
    \cup { [json |-> FALSE] }

\* requests: the body with the two signature headers, which are both
\* missing (read as ""), carry a made-up value, or carry the signature
\* made with the bot's key or with another key
Requests ==
    { [body |-> b, signature |-> << >>, timestamp |-> ""] : b \in Bodies }
    \cup { [body |-> b, signature |-> << "invalid_signature" >>,
            timestamp |-> "1234567890"] : b \in Bodies }
    \cup { [body |-> b, signature |-> signature_of(k, "1234567890", b),
            timestamp |-> "1234567890"] : b \in Bodies, k \in {"pk", "other"} }

NoResponse == << >>

\* JSONResponse(content=content): the status code defaults to 200
JSONResponse(content) == [status_code |-> 200, content |-> content]

\* the request of the call passes the signature check
verified(c) ==
    verify_discord_signature(c.public_key, c.request.body, c.request.signature,
                             c.request.timestamp)

\* mutant: the summarize branch does not look at guild_id
calls_summary_without_guild_check(c) ==
    /\ verified(c)
    /\ c.request.body.json
    /\ c.request.body.type = 2
    /\ ~c.request.body.data.is_none
    /\ c.request.body.data.name = "summarize"

\* mutant: every slash command with a guild id is taken for summarize
calls_summary_any_command(c) ==
    /\ verified(c)
    /\ c.request.body.json
    /\ c.request.body.type = 2
    /\ ~c.request.body.data.is_none
    /\ c.request.body.guild_id # ""

\* the handler reaches the lines after `if not guild_id`
calls_summary(c) ==
    /\ verified(c)
    /\ c.request.body.json
    /\ c.request.body.type = 2
    /\ ~c.request.body.data.is_none
    /\ c.request.body.data.name = "summarize"
    /\ c.request.body.guild_id # ""

\* what the try block raises before get_guild_summary is called
raised(c) ==
    IF ~verified(c)
    THEN [exc |-> "HTTPException", status_code |-> 401,
          detail |-> "Invalid signature"]
    ELSE IF ~c.request.body.json THEN [exc |-> "JSONDecodeError"]
    ELSE IF c.request.body.type = 2 /\ c.request.body.data.is_none
    THEN [exc |-> "AttributeError"]       \* None.get
    ELSE IF calls_summary(c) /\ ~c.bot_attached
    THEN [exc |-> "AttributeError"]       \* app.state has no bot
    ELSE [exc |-> "none"]

\* the handler gets to `await get_guild_summary(guild_id)`
awaits_summary(c) == calls_summary(c) /\ raised(c).exc = "none"

\* the response of a call that returns without calling get_guild_summary;
\* every exception of the try block, the HTTPException of the signature
\* check included, is caught by `except Exception` and answered as a message
direct_response(c) ==
    IF raised(c).exc # "none"
    THEN JSONResponse([type |-> 4,
                       data |-> [content |-> "An error occurred",
                                 error |-> raised(c)]])
    ELSE IF c.request.body.type = 1 THEN JSONResponse([type |-> 1])
    ELSE IF c.request.body.type = 2 /\ c.request.body.data.name = "summarize"
    THEN JSONResponse([type |-> 4,
                       data |-> [content |->
                                   "This command can only be used in a server!"]])
    ELSE JSONResponse([type |-> 4, data |-> [content |-> "Unknown command"]])

\* create_summary_embed(summary_data)
create_summary_embed(summary_data) ==
    IF "error" \in DOMAIN summary_data
    THEN [embeds |-> << [title |-> "Summary Error",
                         description |-> summary_data.error] >>]
    ELSE [embeds |-> << [title |-> "Server Summary",
                         description |-> summary_data.summary_period,
                         total_messages |-> summary_data.total_messages,
                         active_channels |->
                             summary_data.total_channels_with_activity] >>]

\* one request reaches the handler of a process whose key is set or not and
\* whose app.state carries the bot or not
InitHandler ==
    /\ now = 0
    /\ store \in {[g \in GuildIdInputs |->
                     IF g = "2" THEN EmptyDoc ELSE IF g = "1" THEN d ELSE NoDoc] :
                  d \in {NoDoc, Doc(0)}}
    /\ chan = [c \in ChannelIds |-> << >>]
    /\ posts = 0
    /\ run = [r \in RunIds |-> IdleRun]
    /\ call \in { [fn |-> "handle_discord_interaction", public_key |-> k,
                   bot_attached |-> b, request |-> q, stored |-> store,
                   response |-> NoResponse] :
                  k \in {"", "pk"}, b \in BOOLEAN, q \in Requests }

\* the handler returns without having called get_guild_summary
HandleDirect ==
    /\ call.fn = "handle_discord_interaction"
    /\ call.response = NoResponse
    /\ ~awaits_summary(call)
    /\ call' = [call EXCEPT !.response = direct_response(call)]
    /\ UNCHANGED << now, store, chan, posts, run >>

\* summary_data = await get_guild_summary(guild_id), up to the first
\* suspension of the run or to its return
CallGetGuildSummary ==
    /\ call.fn = "handle_discord_interaction"
    /\ awaits_summary(call)
    /\ \/ ResolveRaises(1, call.request.body.guild_id)
       \/ ResolveNotFound(1, call.request.body.guild_id)
       \/ \E ro \in BOOLEAN, wo \in BOOLEAN :
             Resolve(1, call.request.body.guild_id, ro, wo)

\* the run returned: the handler answers with the embed
HandleReturn ==
    /\ call.fn = "handle_discord_interaction"
    /\ awaits_summary(call)
    /\ call.response = NoResponse
    /\ run[1].pc = "done"
    /\ call' = [call EXCEPT !.response =
                  JSONResponse([type |-> 4,
                                data |-> create_summary_embed(run[1].result)])]
    /\ UNCHANGED << now, store, chan, posts, run >>

NextHandler ==
    \/ HandleDirect
    \/ CallGetGuildSummary
    \/ \E r \in RunIds, wo \in BOOLEAN : FetchOk(r, wo)
    \/ \E r \in RunIds, wo \in BOOLEAN : FetchForbidden(r, wo)
    \/ \E r \in RunIds, wo \in BOOLEAN : FetchError(r, wo)
    \/ HandleReturn

SpecHandler == InitHandler /\ [][NextHandler]_vars

\* the handler has answered the request
Answered == call.fn = "handle_discord_interaction" /\ call.response # NoResponse

\* C17: a request whose signature fails verification, because the value is
\* wrong or the headers are missing, is answered with HTTP status 401,
\* whatever its interaction type.
C17_UnverifiedAnswered401 ==
    (Answered /\ ~verified(call)) => call.response.status_code = 401

\* C19: a verified summarize command without a guild id is answered with
\* the type-4 message that the command can only be used in a server; no
\* run is started for it, no store call is made and the store stays as the
\* request found it.
C19_NoGuildNoRun ==
    ( /\ call.fn = "handle_discord_interaction"
      /\ verified(call)
      /\ call.request.body.json
      /\ call.request.body.type = 2
      /\ ~call.request.body.data.is_none
      /\ call.request.body.data.name = "summarize"
      /\ call.request.body.guild_id = "" )
    => /\ \A r \in RunIds : run[r] = IdleRun
       /\ store = call.stored
       /\ Answered =>
             /\ call.response.status_code = 200
             /\ call.response.content.type = 4
             /\ call.response.content.data.content
                   = "This command can only be used in a server!"

\* a signed summarize command without guild id was answered while a
\* watermark was stored for a guild
C19_Witness ==
    /\ Answered
    /\ verified(call)
    /\ call.request.body.json
    /\ call.request.body.type = 2
    /\ call.request.body.data.name = "summarize"
    /\ call.request.body.guild_id = ""
    /\ call.response.content.type = 4
    /\ store["1"] = Doc(0)
    /\ call.bot_attached

\* ------------------------------------------------------------- termination
\* the await of channel.history of run r comes back, with the channel's
\* messages or with an exception
HistoryReturns(r) ==
    \E wo \in BOOLEAN : FetchOk(r, wo) \/ FetchForbidden(r, wo) \/ FetchError(r, wo)

\* the engine once all bursts but one have been posted, one an hour, to
\* channel 11, and before any run: a state of Spec, from which the runs
\* and the last burst interleave
InitPosted ==
    /\ now = MaxPosts - 1
    /\ store \in {[g \in GuildIdInputs |->
                     IF g = "2" THEN EmptyDoc ELSE IF g = "1" THEN d ELSE NoDoc] :
                  d \in {NoDoc, Doc(0)}}
    /\ chan = [c \in ChannelIds |->
                 IF c = 11 THEN [i \in 1..(MaxPosts - 1) |-> [created_at |-> i, n |-> 1]]
                 ELSE << >>]
    /\ posts = MaxPosts - 1
    /\ run = [r \in RunIds |-> IdleRun]
    /\ call = NoCall

\* the event loop resumes every run whose history call has finished: a
\* suspended run is not left waiting forever
FairSpec == InitPosted /\ [][Next]_vars /\ \A r \in RunIds : WF_vars(HistoryReturns(r))

\* C21: every started run eventually returns a result: a run suspended in
\* its fan-out leads to the run having returned a digest or an error
\* result, whatever the other runs do; and a suspended run can always take
\* its next step, in whatever state the other runs are.
C21_EveryRunReturns ==
    /\ \A r \in RunIds :
          (run[r].pc = "fetch") ~> (run[r].pc = "done" /\ run[r].result # NoResult)
    /\ [](\A r \in RunIds : run[r].pc = "fetch" => ENABLED HistoryReturns(r))
    /\ [](\A r \in RunIds : run[r].pc \in {"idle", "fetch", "done"})

\* a run returned its digest while the run started before it was still
\* suspended in its fan-out
C21_Witness ==
    \E r, q \in RunIds :
        /\ r < q
        /\ run[r].pc = "fetch" /\ run[r].idx = 1
        /\ Digest(q) /\ run[q].guild_id = run[r].guild_id
        /\ Len(run[q].fetched) = 2

\* C22: runs of one guild do not exclude each other: a run can start while
\* another run of the same guild is suspended in its fan-out; the step in
\* which a run commits leaves the stored watermark at that run's run_start,
\* whatever was stored before, and leaves the frames of the other runs as
\* they were, so that after two commits the store holds the run_start of
\* the run that committed last.
C22_LastCommitWins ==
    /\ [](\A r \in RunIds : may_start(r) => ENABLED Resolve(r, "1", TRUE, TRUE))
    /\ [][\A r \in RunIds : Commits(r) =>
             /\ store'[run'[r].guild_id] = Doc(run'[r].current_time)
             /\ \A q \in RunIds \ {r} : run'[q] = run[q]]_vars

\* two runs of guild "1" read the same stored state, both committed, and
\* the store holds the run_start of the one that started first and
\* committed last
C22_Witness ==
    \E r, q \in RunIds :
        /\ Committed(r) /\ Committed(q)
        /\ run[r].guild_id = "1" /\ run[q].guild_id = "1"
        /\ run[r].store_ops[1].ok /\ run[q].store_ops[1].ok
        /\ run[r].store_ops[1].doc = run[q].store_ops[1].doc
        /\ run[r].current_time < run[q].current_time
        /\ run[r].store_ops[1].doc # Doc(run[r].current_time)
        /\ store["1"] = Doc(run[r].current_time)

\* C23: in every returned digest, summary_period.from is the lower bound
\* the run got from get_last_summary_timestamp at its start (the stored
\* last_summary, or the run's start minus 24 hours), summary_period.to is
\* the run's run_start, and from <= to, whatever the other runs did in
\* between.
C23_PeriodIsReadToRunStart ==
    \A r \in RunIds : Digest(r) =>
        LET period == run[r].result.summary_period
            get == run[r].store_ops[1]
        IN /\ get.op = "get"
           /\ period.from = get.value
           /\ period.from = IF get.ok /\ get.doc.exists /\ get.doc.has_last
                            THEN get.doc.last_summary
                            ELSE period.to - DEFAULT_LOOKBACK
           /\ period.to = run[r].current_time
           /\ period.from <= period.to
           /\ period.to <= now

\* a digest whose period starts at the stored watermark the run read and
\* ends at its own run_start, returned after the clock had moved on, the
\* store no longer holding what the run read
C23_Witness ==
    \E r \in RunIds :
        /\ Digest(r)
        /\ run[r].store_ops[1].ok /\ run[r].store_ops[1].doc.has_last
        /\ run[r].result.summary_period.from = run[r].store_ops[1].doc.last_summary
        /\ run[r].result.summary_period.from < run[r].result.summary_period.to
        /\ run[r].result.summary_period.to < now
        /\ store[run[r].guild_id] # run[r].store_ops[1].doc

\* the step is run q starting on the guild of run r, which has returned
\* with its watermark written, the store still holding what r wrote: no
\* other value was committed since
StartsAfterCommit(r, q) ==
    /\ r # q
    /\ Committed(r)
    /\ run[q].pc = "idle" /\ Resolved(q)'
    /\ run'[q].guild_id = run[r].guild_id
    /\ store[run[r].guild_id] = Doc(OpsOf(r, "set")[1].value)

\* C24 as stated: when a run's watermark write succeeded and no other run
\* of the guild commits in between, the next run's period_from equals the
\* previous run's period_to.
C24_NextFromIsPreviousTo ==
    [][\A r, q \in RunIds : StartsAfterCommit(r, q)
          => run'[q].last_timestamp = run[r].result.summary_period.to]_vars

\* C24 amended: a successful watermark write stores the period_to of the
\* run's digest; the next run of the guild, with no other commit in
\* between, starts its period at that period_to when its read of the store
\* succeeds, and at its own start minus 24 hours when the read raises; the
\* digest it returns carries that lower bound as its period_from.
C24_NextFromIsPreviousToWhenRead ==
    /\ [][\A r \in RunIds : Commits(r) =>
             store'[run'[r].guild_id] = Doc(run'[r].result.summary_period.to)]_vars
    /\ [][\A r, q \in RunIds : StartsAfterCommit(r, q) =>
             /\ run'[q].last_timestamp =
                   IF run'[q].store_ops[1].ok
                   THEN run[r].result.summary_period.to
                   ELSE now - DEFAULT_LOOKBACK
             /\ run'[q].store_ops[1].ok =>
                   run'[q].last_timestamp <= run'[q].current_time]_vars
    /\ [](\A q \in RunIds : Digest(q) =>
             run[q].result.summary_period.from = run[q].last_timestamp)

\* a run committed, time passed, and the next run of the guild returned a
\* digest whose period starts where the first one's ended
C24_Witness ==
    \E r, q \in RunIds :
        /\ Committed(r) /\ Digest(q) /\ r # q
        /\ run[q].guild_id = run[r].guild_id
        /\ run[q].store_ops[1].ok
        /\ run[q].store_ops[1].doc = Doc(run[r].current_time)
        /\ run[r].store_ops[1].doc # Doc(run[r].current_time)
        /\ run[q].result.summary_period.from = run[r].result.summary_period.to
        /\ run[q].result.summary_period.to > run[q].result.summary_period.from

\* C25: through the webhook, a run is started and the store is touched
\* only for a request that passed the signature check, is of type 2, names
\* the command summarize and carries a guild id; for every other request
\* (ping, unknown command, failed check) no run frame ever leaves idle and
\* the store stays as the request found it; and a change of the store is
\* always the commit of the run of such a request, on the guild it names.
C25_OnlyVerifiedSummarizeWrites ==
    call.fn = "handle_discord_interaction" =>
        LET body == call.request.body
            summarize_in_guild ==
                /\ verified(call)
                /\ body.json
                /\ body.type = 2
                /\ ~body.data.is_none
                /\ body.data.name = "summarize"
                /\ body.guild_id # ""
        IN /\ ~summarize_in_guild =>
                 /\ \A r \in RunIds : run[r] = IdleRun
                 /\ store = call.stored
           /\ \A r \in RunIds : run[r] # IdleRun =>
                 /\ summarize_in_guild
                 /\ r = 1
                 /\ run[r].guild_id = body.guild_id
           /\ \A g \in GuildIdInputs : store[g] # call.stored[g] =>
                 /\ summarize_in_guild
                 /\ g = body.guild_id
                 /\ Committed(1)
                 /\ store[g] = Doc(run[1].current_time)

\* a signed unknown command naming guild "1" was answered "Unknown
\* command" by a process that could have run a summary, and the watermark
\* stored for guild "1" is as before
C25_Witness ==
    /\ Answered
    /\ verified(call)
    /\ call.bot_attached
    /\ call.request.body.json
    /\ call.request.body.type = 2
    /\ call.request.body.data.name = "unknown_command"
    /\ call.request.body.guild_id = "1"
    /\ call.response.content.data.content = "Unknown command"
    /\ store["1"] = Doc(0) /\ call.stored["1"] = Doc(0)

\* C26: a run touches the watermark of its own guild only: every store
\* call of a run has the run's guild id as its key, and a step that changes
\* the document of a guild is the commit of a run of that guild; the
\* documents of all other guilds are as they were, whether the run returns
\* a digest or an error result.
C26_OnlyOwnWatermark ==
    /\ [](\A r \in RunIds : \A i \in DOMAIN run[r].store_ops :
             run[r].store_ops[i].key = run[r].guild_id)
    /\ [][\A g \in GuildIdInputs : store'[g] # store[g] =>
             \E r \in RunIds : /\ Commits(r)
                               /\ run'[r].guild_id = g
                               /\ \A h \in GuildIdInputs \ {g} :
                                     store'[h] = store[h]]_vars
    /\ [][\A r \in RunIds : ReturnsError(r) => store' = store]_vars

\* runs of two guilds both committed, and each guild's document holds the
\* run_start of its own run
C26_Witness ==
    \E r, q \in RunIds :
        /\ Committed(r) /\ run[r].guild_id = "1"
        /\ Committed(q) /\ run[q].guild_id = "2"
        /\ run[r].current_time # run[q].current_time
        /\ store["1"] = Doc(run[r].current_time)
        /\ store["2"] = Doc(run[q].current_time)
        /\ store["404"] = NoDoc

====
